---- MODULE Spec2Model ----
(***************************************************************************)
(* gitsec-scanner: the static scanner (backend/scanner.py) and the batch   *)
(* repository walk that drives it (backend/main.py, analyze_repo).         *)
(*                                                                         *)
(* Text is modelled as sequences of one-character strings, so that         *)
(* str.lower(), `in` (substring search), str.strip() and list indexing are *)
(* computed the way Python computes them.  A syntax tree is a record       *)
(*   [kind, lineno, nl, id, val, fields]                                   *)
(* whose `fields` are the node's child lists in the order of the node      *)
(* class's _fields, which is the order ast.NodeVisitor.generic_visit       *)
(* walks them.  `nl` is the number of line breaks written before the       *)
(* node's first token; ast.parse turns it into `lineno`.                   *)
(***************************************************************************)
EXTENDS Integers, Sequences, FiniteSets, TLC

VARIABLES
    files,          \* analyze_repo: the .py candidates os.walk yields, in walk order
    idx,            \* analyze_repo: position of the walk in `files`
    pc,             \* control position of the request
    code_lines,     \* SecurityVisitor.code_lines
    stack,          \* pending visit() calls of the traversal, innermost first
    issues,         \* SecurityVisitor.issues
    ret,            \* value returned by the current scan_code call
    scan_results,   \* analyze_repo: scan_results
    response,       \* analyze_repo: the returned {"issues": ...}
    visited,        \* history: what each visit() call of the current scan saw and emitted
    calls           \* history: the scan_code calls so far and how each ended

vars == <<files, idx, pc, code_lines, stack, issues, ret, scan_results, response,
          visited, calls>>

----------------------------------------------------------------------------
(* Bounds of the model.                                                    *)

MaxTargets == 2
MaxHandlerBody == 2
MaxStmts == 2
MaxNest == 5
MaxSrcLines == 2
MaxFiles == 3
MaxLines == 2
MaxLineLen == 2
\* CPython's recursion limit (sys.getrecursionlimit(), 1000 by default),
\* scaled down with the trees: the nested-call chain of depth MaxNest
\* exceeds it, every other tree of the model fits.
RecursionBudget == 20

----------------------------------------------------------------------------
(* Text.                                                                   *)

UpperCase == <<"A","B","C","D","E","F","G","H","I","J","K","L","M",
               "N","O","P","Q","R","S","T","U","V","W","X","Y","Z">>
LowerCase == <<"a","b","c","d","e","f","g","h","i","j","k","l","m",
               "n","o","p","q","r","s","t","u","v","w","x","y","z">>

lower_char(c) ==
    IF \E i \in 1..26 : UpperCase[i] = c
    THEN LowerCase[CHOOSE i \in 1..26 : UpperCase[i] = c]
    ELSE c

\* str.lower()
lower(s) == [i \in 1..Len(s) |-> lower_char(s[i])]

\* `sub in s` on strings
contains(sub, s) ==
    \E i \in 0..(Len(s) - Len(sub)) : SubSeq(s, i + 1, i + Len(sub)) = sub

Whitespace == {" ", "\t"}

RECURSIVE lstrip(_)
lstrip(s) == IF s # <<>> /\ Head(s) \in Whitespace THEN lstrip(Tail(s)) ELSE s

RECURSIVE rstrip(_)
rstrip(s) ==
    IF s # <<>> /\ s[Len(s)] \in Whitespace
    THEN rstrip(SubSeq(s, 1, Len(s) - 1))
    ELSE s

\* str.strip()
strip(s) == rstrip(lstrip(s))

id_key == <<"k","e","y">>
id_password == <<"p","a","s","s","w","o","r","d">>
id_secret == <<"s","e","c","r","e","t">>
id_token == <<"t","o","k","e","n">>
\* the list literal of scanner.py:37
SecretWords == {id_key, id_password, id_secret, id_token}

id_api_key == <<"a","p","i","_","k","e","y">>
id_Token == <<"T","o","k","e","n">>
id_PASSWORD == <<"P","A","S","S","W","O","R","D">>
id_a_secret_b == <<"a","_","s","e","c","r","e","t","_","b">>
id_ke_y == <<"k","e","_","y">>
id_x == <<"x">>
id_self == <<"s","e","l","f">>
id_f == <<"f">>
id_eval == <<"e","v","a","l">>
id_Eval == <<"E","v","a","l">>
id_exec == <<"e","x","e","c">>
id_input == <<"i","n","p","u","t">>
id_os == <<"o","s">>
id_sys == <<"s","y","s">>
id_subprocess == <<"s","u","b","p","r","o","c","e","s","s">>
id_system == <<"s","y","s","t","e","m">>
id_popen == <<"p","o","p","e","n">>
id_Popen == <<"P","o","p","e","n">>
id_run == <<"r","u","n">>
id_call == <<"c","a","l","l">>
id_remove == <<"r","e","m","o","v","e">>
id_path == <<"p","a","t","h">>
id_Exception == <<"E","x","c","e","p","t","i","o","n">>

----------------------------------------------------------------------------
(* Syntax trees as ast.parse builds them.                                  *)

N(kind, id, val, nl, fields) ==
    [kind |-> kind, lineno |-> 0, nl |-> nl, id |-> id, val |-> val, fields |-> fields]

Name(id) == N("Name", id, "", 0, <<>>)
Constant(val) == N("Constant", <<>>, val, 0, <<>>)
Attribute(value, attr) == N("Attribute", attr, "", 0, << <<value>> >>)
Tuple(elts) == N("Tuple", <<>>, "", 0, <<elts>>)
BinOp(left, right) == N("BinOp", <<>>, "", 0, << <<left>>, <<right>> >>)
Call(func, args, nl) == N("Call", <<>>, "", nl, << <<func>>, args, <<>> >>)
IfExp(test, body, orelse) == N("IfExp", <<>>, "", 0, << <<test>>, <<body>>, <<orelse>> >>)
Dict(keys, values) == N("Dict", <<>>, "", 0, <<keys, values>>)
Pass == N("Pass", <<>>, "", 0, <<>>)
Continue == N("Continue", <<>>, "", 0, <<>>)
Expr(value) == N("Expr", <<>>, "", 0, << <<value>> >>)
Assign(targets, value) == N("Assign", <<>>, "", 0, <<targets, <<value>> >>)
ExceptHandler(type, body) == N("ExceptHandler", <<>>, "", 0, <<type, body>>)
Try(body, handlers) == N("Try", <<>>, "", 0, <<body, handlers>>)
arguments(kw_defaults, defaults) == N("arguments", <<>>, "", 0, <<kw_defaults, defaults>>)
FunctionDef(args, body, decorator_list) ==
    N("FunctionDef", id_f, "", 0, << <<args>>, body, decorator_list >>)
ClassDef(bases, body, decorator_list) ==
    N("ClassDef", id_x, "", 0, <<bases, body, decorator_list>>)
Module(body) == N("Module", <<>>, "", 0, <<body>>)

\* ast.parse's line numbering.  Lay(n, cur) places node n when the text
\* before it ends on line cur: the node starts n.nl lines further down.  It
\* returns the node with every lineno filled in and the line its last token
\* is on.  Children are placed in the order they are written, which is not
\* always the order of _fields: decorators are written before the def line
\* but stored after the body, a conditional expression is written
\* body-test-orelse but stored test-body-orelse, dictionary keys and values
\* are written interleaved but stored as two lists, and positional defaults
\* are written before keyword-only defaults but stored after them.
RECURSIVE Lay(_, _)
RECURSIVE LaySeq(_, _, _)
RECURSIVE LayPairs(_, _, _)

\* step = 1: one item per line (statements); step = 0: items on one line
LaySeq(seq, cur, step) ==
    IF seq = <<>> THEN [nodes |-> <<>>, end |-> cur - step]
    ELSE LET h == Lay(Head(seq), cur)
             t == LaySeq(Tail(seq), h.end + step, step)
         IN  [nodes |-> <<h.node>> \o t.nodes, end |-> t.end]

LayPairs(keys, values, cur) ==
    IF keys = <<>> THEN [keys |-> <<>>, values |-> <<>>, end |-> cur]
    ELSE LET k == Lay(Head(keys), cur)
             v == Lay(Head(values), k.end)
             t == LayPairs(Tail(keys), Tail(values), v.end)
         IN  [keys |-> <<k.node>> \o t.keys, values |-> <<v.node>> \o t.values,
              end |-> t.end]

Lay(n, cur) ==
    LET start == cur + n.nl
        f == n.fields
        at(line, fields) == [n EXCEPT !.lineno = line, !.fields = fields]
    IN
    CASE n.kind = "Module" ->
            LET b == LaySeq(f[1], 1, 1)
            IN  [node |-> at(0, <<b.nodes>>), end |-> b.end]
      [] n.kind \in {"Expr", "Attribute", "Tuple"} ->
            LET v == LaySeq(f[1], start, 0)
            IN  [node |-> at(start, <<v.nodes>>), end |-> v.end]
      [] n.kind \in {"Assign", "BinOp"} ->
            LET a == LaySeq(f[1], start, 0)
                b == LaySeq(f[2], a.end, 0)
            IN  [node |-> at(start, <<a.nodes, b.nodes>>), end |-> b.end]
      [] n.kind = "Call" ->
            LET fn == LaySeq(f[1], start, 0)
                a == LaySeq(f[2], fn.end, 0)
                k == LaySeq(f[3], a.end, 0)
            IN  [node |-> at(start, <<fn.nodes, a.nodes, k.nodes>>), end |-> k.end]
      [] n.kind = "IfExp" ->
            LET b == LaySeq(f[2], start, 0)
                t == LaySeq(f[1], b.end, 0)
                o == LaySeq(f[3], t.end, 0)
            IN  [node |-> at(start, <<t.nodes, b.nodes, o.nodes>>), end |-> o.end]
      [] n.kind = "Dict" ->
            LET p == LayPairs(f[1], f[2], start)
            IN  [node |-> at(start, <<p.keys, p.values>>), end |-> p.end]
      [] n.kind = "arguments" ->
            LET d == LaySeq(f[2], start, 0)
                k == LaySeq(f[1], d.end, 0)
            IN  [node |-> at(0, <<k.nodes, d.nodes>>), end |-> k.end]
      [] n.kind = "ExceptHandler" ->
            LET t == LaySeq(f[1], start, 0)
                b == LaySeq(f[2], t.end + 1, 1)
            IN  [node |-> at(start, <<t.nodes, b.nodes>>), end |-> b.end]
      [] n.kind = "Try" ->
            LET b == LaySeq(f[1], start + 1, 1)
                h == LaySeq(f[2], b.end + 1, 1)
            IN  [node |-> at(start, <<b.nodes, h.nodes>>), end |-> h.end]
      [] n.kind \in {"FunctionDef", "ClassDef"} ->
            LET d == LaySeq(f[3], start, 1)
                defline == d.end + 1
                a == LaySeq(f[1], defline, 0)
                b == LaySeq(f[2], a.end + 1, 1)
            IN  [node |-> at(defline, <<a.nodes, b.nodes, d.nodes>>), end |-> b.end]
      [] OTHER -> [node |-> at(start, <<>>), end |-> start]


----------------------------------------------------------------------------
(* The inputs: source files.                                               *)

None == -1

Str == Constant("str")
Num == Constant("int")
Ellipsis == Constant("Ellipsis")

\* api_key = "..."  and  token = f()
SecretAssign == Assign(<<Name(id_api_key)>>, Str)
SafeAssign == Assign(<<Name(id_Token)>>, Call(Name(id_f), <<>>, 0))
EvalCall == Call(Name(id_eval), <<Name(id_x)>>, 0)

TargetIds == {id_api_key, id_Token, id_PASSWORD, id_a_secret_b, id_ke_y, id_x}
TargetShapes ==
    {Name(i) : i \in TargetIds}
    \cup {Attribute(Name(id_self), id_key), Tuple(<<Name(id_api_key), Name(id_x)>>)}
TargetLists == UNION {[1..n -> TargetShapes] : n \in 1..MaxTargets}
Values == {Str, Num, Name(id_x), Call(Name(id_f), <<>>, 0), BinOp(Str, Str)}
AssignStmts == {Assign(t, v) : t \in TargetLists, v \in Values}

BareCallees == {Name(i) : i \in {id_eval, id_exec, id_input, id_system, id_Eval, id_f}}
ModuleCallees ==
    {Attribute(Name(m), a) :
        m \in {id_os, id_subprocess, id_sys},
        a \in {id_system, id_popen, id_run, id_call, id_Popen, id_remove}}
\* os.path.system, x.os.system, f()()
IndirectCallees ==
    {Attribute(Attribute(Name(id_os), id_path), id_system),
     Attribute(Attribute(Name(id_x), id_os), id_system),
     Call(Name(id_f), <<>>, 0)}
Callees == BareCallees \cup ModuleCallees \cup IndirectCallees
CallStmts == {Expr(Call(c, a, 0)) : c \in Callees, a \in {<<>>, <<Str>>}}

HandlerStmts == {Pass, Continue, Expr(Ellipsis), Expr(Str), Expr(EvalCall), SecretAssign}
HandlerBodies == UNION {[1..n -> HandlerStmts] : n \in 1..MaxHandlerBody}
HandlerTypes == {<<>>, <<Name(id_Exception)>>, <<EvalCall>>}
TryStmts == {Try(<<Pass>>, <<ExceptHandler(t, b)>>) : t \in HandlerTypes, b \in HandlerBodies}

\* eval()()...(): k calls, each the callee of the next.  (Calls nested in
\* argument position cannot get deep: the parser refuses deep brackets.)
RECURSIVE CallChain(_)
CallChain(k) ==
    IF k = 1 THEN Call(Name(id_eval), <<>>, 0) ELSE Call(CallChain(k - 1), <<>>, 0)
ChainStmts == {Expr(CallChain(k)) : k \in 1..MaxNest}

\* calls that may start on a line of their own inside a bracketed expression
LCalls == {Call(Name(i), <<>>, nl) : i \in {id_eval, id_input}, nl \in {0, 1}}
SpreadExprs ==
    {IfExp(t, b, Num) : t \in LCalls, b \in LCalls}
    \cup {Dict(<<Num, k>>, <<v, Num>>) : k \in LCalls, v \in LCalls}
    \cup {Call(Attribute(Name(id_os), id_system), <<a>>, 0) : a \in LCalls}
    \cup {Call(Name(id_eval), <<Call(Name(id_eval), <<a>>, 0)>>, 0) : a \in LCalls}
SpreadStmts == {Expr(e) : e \in SpreadExprs} \cup {Assign(<<Name(id_x)>>, e) : e \in SpreadExprs}

InnerStmts == {SecretAssign, Expr(EvalCall), Pass, Try(<<Pass>>, <<ExceptHandler(<<>>, <<Pass>>)>>)}
Decorators == {<<>>, <<Call(Name(id_eval), <<>>, 0)>>}
ArgShapes ==
    {arguments(k, d) :
        k \in {<<>>} \cup {<<Call(Name(id_input), <<>>, nl)>> : nl \in {0, 1}},
        d \in {<<>>, <<Call(Name(id_eval), <<>>, 0)>>}}
FunctionDefs == {FunctionDef(a, <<s>>, d) : a \in ArgShapes, s \in InnerStmts, d \in Decorators}
ClassDefs ==
    {ClassDef(<<>>, <<s>>, d) : s \in InnerStmts, d \in Decorators}
    \cup {ClassDef(<<>>, <<FunctionDef(arguments(<<>>, <<>>), <<s>>, d)>>, <<>>) :
            s \in InnerStmts, d \in Decorators}
NestedTrys == {Try(<<s>>, <<ExceptHandler(<<>>, <<t>>)>>) : s \in InnerStmts, t \in InnerStmts}

\* statements that modules of several statements are made of
CoreStmts ==
    {SecretAssign, SafeAssign, Expr(EvalCall), Expr(Call(Name(id_input), <<>>, 0)),
     Try(<<SecretAssign>>, <<ExceptHandler(<<>>, <<Pass>>)>>),
     FunctionDef(arguments(<<>>, <<>>), <<Expr(EvalCall)>>, <<Call(Name(id_eval), <<>>, 0)>>),
     Expr(IfExp(Call(Name(id_input), <<>>, 1), Call(Name(id_eval), <<>>, 0), Num))}

Programs ==
    {Module(<<>>)}
    \cup {Module(<<s>>) :
            s \in AssignStmts \cup CallStmts \cup TryStmts \cup ChainStmts \cup SpreadStmts
                  \cup FunctionDefs \cup ClassDefs \cup NestedTrys}
    \cup {Module(b) : b \in UNION {[1..n -> CoreStmts] : n \in 2..MaxStmts}}

\* A .py file whose text parses: the tree and the number of text lines.
OkFile(program) ==
    LET p == Lay(program, 0)
    IN  [py |-> TRUE, read |-> "ok", parse |-> "ok", elineno |-> 0, msg |-> <<>>,
         tree |-> p.node, nlines |-> p.end]

\* A .py file whose text ast.parse rejects.  A SyntaxError carries a line
\* (None for e.g. a null byte; the line after the last one when the text
\* ends where a block was expected, as for "if x:\r\n"); any other
\* exception of the parser carries none.
BadFiles ==
    {[py |-> TRUE, read |-> "ok", parse |-> "SyntaxError", elineno |-> l,
      msg |-> <<"invalid syntax">>, tree |-> Module(<<>>), nlines |-> n] :
        <<n, l>> \in {nl \in (1..MaxSrcLines) \X ({None} \cup 1..(MaxSrcLines + 1)) :
                        nl[2] <= nl[1] + 1}}
    \cup {[py |-> TRUE, read |-> "ok", parse |-> "Exception", elineno |-> None,
           msg |-> <<"too complex">>, tree |-> Module(<<>>), nlines |-> n] :
            n \in 1..MaxSrcLines}

\* Files open() or read() fails on, and files that are no .py files.
UnreadFiles ==
    {[py |-> p, read |-> r, parse |-> "ok", elineno |-> 0, msg |-> <<>>,
      tree |-> Module(<<>>), nlines |-> 0] :
        <<p, r>> \in {pr \in BOOLEAN \X {"ok", "OSError", "UnicodeDecodeError"} :
                        ~pr[1] \/ pr[2] # "ok"}}

AllFiles ==
    {OkFile(p) : p \in Programs}
    \cup BadFiles
    \cup UnreadFiles

CoreFiles ==
    {OkFile(Module(<<SecretAssign, Expr(EvalCall)>>)),
     OkFile(Module(<<Expr(Call(Name(id_input), <<>>, 0))>>)),
     OkFile(Module(<<Pass>>)),
     OkFile(Module(<<Expr(CallChain(MaxNest))>>)),
     CHOOSE f \in BadFiles : f.parse = "SyntaxError" /\ f.elineno = 1 /\ f.nlines = 1,
     CHOOSE f \in UnreadFiles : f.py /\ f.read = "OSError",
     CHOOSE f \in UnreadFiles : f.py /\ f.read = "UnicodeDecodeError"}

FileLists ==
    {<<f>> : f \in AllFiles}
    \cup UNION {[1..n -> CoreFiles] : n \in 0..MaxFiles}

\* code.splitlines(): line i of the text, written here as one space and i
\* letters, so that the lines differ and have whitespace to strip.
SourceLines(n) == [i \in 1..n |-> <<" ">> \o [k \in 1..i |-> "x"]]


----------------------------------------------------------------------------
(* scanner.py                                                              *)

CodeNotAvailable == <<"(Code not available)">>
NotApplicable == <<"N/A">>

\* list[i] of Python: an index below zero counts from the end of the list
IndexError(lines, i) == i >= Len(lines) \/ i < -Len(lines)
PyIndex(lines, i) == IF i >= 0 THEN lines[i + 1] ELSE lines[Len(lines) + i + 1]

Finding(filename, line, text, arg, severity, code) ==
    [filename |-> filename, line |-> line, issue |-> [text |-> text, arg |-> arg],
     severity |-> severity, code |-> code]

\* SecurityVisitor.add_issue
add_issue(iss, filename, lines, node, text, arg, severity) ==
    LET line_num == node.lineno
        code_snippet == IF IndexError(lines, line_num - 1)
                        THEN CodeNotAvailable
                        ELSE strip(PyIndex(lines, line_num - 1))
    IN  Append(iss, Finding(filename, line_num, text, arg, severity, code_snippet))

\* check_target comparing the name as written: .lower() forgotten
check_target_as_written(iss, filename, lines, node, target) ==
    IF target.kind = "Name"
       /\ (\E secret \in SecretWords : contains(secret, target.id))
       /\ node.fields[2][1].kind = "Constant" /\ node.fields[2][1].val = "str"
    THEN add_issue(iss, filename, lines, node, "Possible Hardcoded Secret", target.id, "High")
    ELSE iss

\* the body of the loop of visit_Assign, for one target
check_target(iss, filename, lines, node, target) ==
    IF target.kind = "Name"
       /\ (\E secret \in SecretWords : contains(secret, lower(target.id)))
       /\ node.fields[2][1].kind = "Constant" /\ node.fields[2][1].val = "str"
    THEN add_issue(iss, filename, lines, node, "Possible Hardcoded Secret", target.id, "High")
    ELSE iss

RECURSIVE for_targets(_, _, _, _, _)
for_targets(iss, filename, lines, node, targets) ==
    IF targets = <<>> THEN iss
    ELSE for_targets(check_target(iss, filename, lines, node, Head(targets)),
                     filename, lines, node, Tail(targets))

\* SecurityVisitor.visit_Assign, up to its generic_visit
assign_issues(iss, filename, lines, node) ==
    for_targets(iss, filename, lines, node, node.fields[1])

\* call_issues looking at the method name only, whatever the module
call_issues_any_module(iss, filename, lines, node) ==
    LET func == node.fields[1][1]
    IN  IF func.kind = "Name"
        THEN IF func.id \in {id_eval, id_exec}
             THEN add_issue(iss, filename, lines, node,
                            "Use of Dangerous Function", func.id, "High")
             ELSE IF func.id = id_input
             THEN add_issue(iss, filename, lines, node,
                            "Use of input() (Validate this data!)", <<>>, "Medium")
             ELSE iss
        ELSE IF func.kind = "Attribute" /\ func.fields[1][1].kind = "Name"
        THEN LET module == func.fields[1][1].id
                 method == func.id
             IN  IF method \in {id_system, id_popen}
                 THEN add_issue(iss, filename, lines, node,
                                "Potential OS Command Injection",
                                module \o <<".">> \o method, "High")
                 ELSE IF method \in {id_run, id_call, id_Popen}
                 THEN add_issue(iss, filename, lines, node,
                                "Potential Subprocess Injection",
                                module \o <<".">> \o method, "High")
                 ELSE iss
        ELSE iss

\* SecurityVisitor.visit_Call, up to its generic_visit
call_issues(iss, filename, lines, node) ==
    LET func == node.fields[1][1]
    IN  IF func.kind = "Name"
        THEN IF func.id \in {id_eval, id_exec}
             THEN add_issue(iss, filename, lines, node,
                            "Use of Dangerous Function", func.id, "High")
             ELSE IF func.id = id_input
             THEN add_issue(iss, filename, lines, node,
                            "Use of input() (Validate this data!)", <<>>, "Medium")
             ELSE iss
        ELSE IF func.kind = "Attribute"
        THEN IF func.fields[1][1].kind = "Name"
             THEN LET module == func.fields[1][1].id
                      method == func.id
                  IN  IF module = id_os /\ method \in {id_system, id_popen}
                      THEN add_issue(iss, filename, lines, node,
                                     "Potential OS Command Injection",
                                     module \o <<".">> \o method, "High")
                      ELSE IF module = id_subprocess /\ method \in {id_run, id_call, id_Popen}
                      THEN add_issue(iss, filename, lines, node,
                                     "Potential Subprocess Injection",
                                     module \o <<".">> \o method, "High")
                      ELSE iss
             ELSE iss
        ELSE iss

\* handler_issues looking at the first statement only, whatever follows it
handler_issues_first_statement(iss, filename, lines, node) ==
    LET body == node.fields[2]
    IN  IF body[1].kind = "Pass"
           \/ (body[1].kind = "Expr"
               /\ body[1].fields[1][1].kind = "Constant"
               /\ body[1].fields[1][1].val = "Ellipsis")
        THEN add_issue(iss, filename, lines, node,
                       "Broad Exception Handler (empty except)", <<>>, "Low")
        ELSE iss

\* SecurityVisitor.visit_ExceptHandler, up to its generic_visit
handler_issues(iss, filename, lines, node) ==
    LET body == node.fields[2]
    IN  IF Len(body) = 1
           /\ (body[1].kind = "Pass"
               \/ (body[1].kind = "Expr"
                   /\ body[1].fields[1][1].kind = "Constant"
                   /\ body[1].fields[1][1].val = "Ellipsis"))
        THEN add_issue(iss, filename, lines, node,
                       "Broad Exception Handler (empty except)", <<>>, "Low")
        ELSE iss

\* Children walking the fields and their items last to first
RECURSIVE Children_reversed(_)
Children_reversed(fields) ==
    IF fields = <<>> THEN <<>>
    ELSE Children_reversed(Tail(fields))
         \o [i \in 1..Len(Head(fields)) |-> Head(fields)[Len(Head(fields)) + 1 - i]]

\* ast.NodeVisitor.generic_visit: the children, field by field
RECURSIVE Children(_)
Children(fields) == IF fields = <<>> THEN <<>> ELSE Head(fields) \o Children(Tail(fields))

\* Python frames one visit() call holds while it visits the node's
\* children: visit and generic_visit, and the visit_<kind> method between
\* them for the kinds that have one.
Frames(node) == IF node.kind \in {"Assign", "Call", "ExceptHandler"} THEN 3 ELSE 2

\* syntax_error_finding with `e.lineno` in place of `e.lineno or 0`
syntax_error_finding_lineno(filename, file) ==
    Finding(filename, file.elineno, "Syntax Error", file.msg, "Error", NotApplicable)

\* scan_code, lines 85-92 and 93-100: the Finding a parse failure becomes
syntax_error_finding(filename, file) ==
    Finding(filename, IF file.elineno = None \/ file.elineno = 0 THEN 0 ELSE file.elineno,
            "Syntax Error", file.msg, "Error", NotApplicable)

parse_exception_finding(filename, file) ==
    Finding(filename, 0, "Failed to parse", file.msg, "Error", NotApplicable)


----------------------------------------------------------------------------
(* The request: analyze_repo walks the files and calls scan_code on each.  *)

NoResponse == [issues |-> <<>>, error |-> FALSE]

Init ==
    /\ files \in FileLists
    /\ idx = 1
    /\ pc = "clone"
    /\ code_lines = <<>>
    /\ stack = <<>>
    /\ issues = <<>>
    /\ ret = <<>>
    /\ scan_results = <<>>
    /\ response = NoResponse
    /\ visited = <<>>
    /\ calls = <<>>

\* main.py:134 git.Repo.clone_from, and the outer handler of line 147
clone_from ==
    /\ pc = "clone"
    /\ \/ pc' = "walk" /\ UNCHANGED response
       \/ pc' = "done" /\ response' = [issues |-> <<>>, error |-> TRUE]
    /\ UNCHANGED <<files, idx, code_lines, stack, issues, ret, scan_results, visited, calls>>

\* main.py:136-142: the next file of the walk; a file that is no .py file is
\* passed over, one that cannot be opened or decoded raises into `except: pass`
next_file ==
    /\ pc = "walk"
    /\ idx <= Len(files)
    /\ \/ /\ ~files[idx].py
          /\ idx' = idx + 1 /\ pc' = pc
       \/ /\ files[idx].py /\ files[idx].read # "ok"
          /\ idx' = idx + 1 /\ pc' = pc
       \/ /\ files[idx].py /\ files[idx].read = "ok"
          /\ idx' = idx /\ pc' = "scan_code"
    /\ UNCHANGED <<files, code_lines, stack, issues, ret, scan_results, response,
                   visited, calls>>

\* main.py:158-161
walk_done ==
    /\ pc = "walk"
    /\ idx > Len(files)
    /\ pc' = "done"
    /\ response' = [issues |-> scan_results, error |-> FALSE]
    /\ UNCHANGED <<files, idx, code_lines, stack, issues, ret, scan_results, visited, calls>>

Returned(file, findings) == [file |-> file, raised |-> FALSE, findings |-> findings]
Raised(file) == [file |-> file, raised |-> TRUE, findings |-> <<>>]

\* scanner.py:82-107: parse; on failure return the one Error Finding, else
\* split the text, build the visitor and call visitor.visit(tree)
scan_code ==
    /\ pc = "scan_code"
    /\ LET file == files[idx]
       IN  \/ /\ file.parse = "SyntaxError"
              /\ ret' = <<syntax_error_finding(idx, file)>>
              /\ pc' = "scan_returned"
              /\ visited' = <<>>
              /\ calls' = Append(calls, Returned(idx, ret'))
              /\ UNCHANGED <<code_lines, stack, issues>>
           \/ /\ file.parse = "Exception"
              /\ ret' = <<parse_exception_finding(idx, file)>>
              /\ pc' = "scan_returned"
              /\ visited' = <<>>
              /\ calls' = Append(calls, Returned(idx, ret'))
              /\ UNCHANGED <<code_lines, stack, issues>>
           \/ /\ file.parse = "ok"
              /\ code_lines' = SourceLines(file.nlines)
              /\ issues' = <<>>
              /\ visited' = <<>>
              /\ stack' = <<[node |-> file.tree, depth |-> 1]>>
              /\ pc' = "visit"
              /\ ret' = <<>>
              /\ calls' = calls
    /\ UNCHANGED <<files, idx, scan_results, response>>

\* One visit(node) call: the detector of the node's kind appends its
\* Findings, then generic_visit calls visit on each child in field order.
\* A call that would need more frames than the interpreter allows raises
\* RecursionError, which nothing in scanner.py catches.
Visit(detected) ==
    LET top == Head(stack)
        node == top.node
        below == top.depth + Frames(node)
        kids == Children(node.fields)
    IN  IF below > RecursionBudget
        THEN /\ pc' = "scan_raised"
             /\ stack' = <<>>
             /\ calls' = Append(calls, Raised(idx))
             /\ UNCHANGED <<issues, visited>>
        ELSE /\ issues' = detected
             /\ stack' = [i \in 1..Len(kids) |-> [node |-> kids[i], depth |-> below]]
                         \o Tail(stack)
             /\ visited' = Append(visited,
                    [node |-> node,
                     emitted |-> SubSeq(detected, Len(issues) + 1, Len(detected))])
             /\ calls' = calls
             /\ pc' = pc

\* scanner.py:28-43
visit_Assign ==
    /\ pc = "visit" /\ stack # <<>> /\ Head(stack).node.kind = "Assign"
    /\ Visit(assign_issues(issues, idx, code_lines, Head(stack).node))
    /\ UNCHANGED <<files, idx, code_lines, ret, scan_results, response>>

\* scanner.py:45-66
visit_Call ==
    /\ pc = "visit" /\ stack # <<>> /\ Head(stack).node.kind = "Call"
    /\ Visit(call_issues(issues, idx, code_lines, Head(stack).node))
    /\ UNCHANGED <<files, idx, code_lines, ret, scan_results, response>>

\* scanner.py:68-79
visit_ExceptHandler ==
    /\ pc = "visit" /\ stack # <<>> /\ Head(stack).node.kind = "ExceptHandler"
    /\ Visit(handler_issues(issues, idx, code_lines, Head(stack).node))
    /\ UNCHANGED <<files, idx, code_lines, ret, scan_results, response>>

\* every other kind of node: ast.NodeVisitor.visit falls back to generic_visit
generic_visit ==
    /\ pc = "visit" /\ stack # <<>>
    /\ Head(stack).node.kind \notin {"Assign", "Call", "ExceptHandler"}
    /\ Visit(issues)
    /\ UNCHANGED <<files, idx, code_lines, ret, scan_results, response>>

\* scanner.py:109
scan_return ==
    /\ pc = "visit" /\ stack = <<>>
    /\ ret' = issues
    /\ pc' = "scan_returned"
    /\ calls' = Append(calls, Returned(idx, issues))
    /\ UNCHANGED <<files, idx, code_lines, stack, issues, scan_results, response, visited>>

\* main.py:144-145
extend ==
    /\ pc = "scan_returned"
    /\ scan_results' = scan_results \o ret
    /\ idx' = idx + 1
    /\ pc' = "walk"
    /\ UNCHANGED <<files, code_lines, stack, issues, ret, response, visited, calls>>

\* except_pass leaving the loop: `except: break`
except_break ==
    /\ pc = "scan_raised"
    /\ idx' = Len(files) + 1
    /\ pc' = "walk"
    /\ UNCHANGED <<files, code_lines, stack, issues, ret, scan_results, response,
                   visited, calls>>

\* main.py:146: `except: pass` around the read and the scan of one file
except_pass ==
    /\ pc = "scan_raised"
    /\ idx' = idx + 1
    /\ pc' = "walk"
    /\ UNCHANGED <<files, code_lines, stack, issues, ret, scan_results, response,
                   visited, calls>>

Next ==
    \/ clone_from
    \/ next_file
    \/ walk_done
    \/ scan_code
    \/ visit_Assign
    \/ visit_Call
    \/ visit_ExceptHandler
    \/ generic_visit
    \/ scan_return
    \/ extend
    \/ except_pass

Spec == Init /\ [][Next]_vars

----------------------------------------------------------------------------
(* add_issue on its own: any line number against any list of lines.        *)

LineChars == {" ", "a", "b"}
TextLines == UNION {[1..n -> LineChars] : n \in 0..MaxLineLen}
LineLists == UNION {[1..n -> TextLines] : n \in 0..MaxLines}

InitSnippet ==
    /\ files = <<>>
    /\ idx = 1
    /\ pc = "add_issue"
    /\ code_lines \in LineLists
    /\ stack = <<>>
    /\ issues = <<>>
    /\ ret = <<>>
    /\ scan_results = <<>>
    /\ response = NoResponse
    /\ visited = <<>>
    /\ calls = <<>>

call_add_issue ==
    /\ pc = "add_issue"
    /\ \E n \in (-(MaxLines + 1))..(MaxLines + 1) :
        LET node == [EvalCall EXCEPT !.lineno = n]
            after == add_issue(issues, idx, code_lines, node,
                               "Use of Dangerous Function", id_eval, "High")
        IN  /\ issues' = after
            /\ visited' = <<[node |-> node, emitted |-> after]>>
    /\ pc' = "added"
    /\ UNCHANGED <<files, idx, code_lines, stack, ret, scan_results, response, calls>>

NextSnippet == call_add_issue

SpecSnippet == InitSnippet /\ [][NextSnippet]_vars


----------------------------------------------------------------------------
(* The claims.                                                             *)

Scanning == pc \in {"scan_returned", "scan_raised"}
File == files[idx]
VisitsOf(kind) == {i \in 1..Len(visited) : visited[i].node.kind = kind}

\* C1: scan_code never raises, and what it returns is either exactly one
\* Error Finding or a list without any Error Finding.
C1_Total ==
    /\ pc # "scan_raised"
    /\ pc = "scan_returned" =>
          \/ Len(ret) = 1 /\ ret[1].severity = "Error"
          \/ \A i \in 1..Len(ret) : ret[i].severity # "Error"

\* C2: a text that fails to parse gives exactly one Finding, of severity
\* Error, on the parser's line (0 when it reported none), carrying the
\* parser's message; nothing is visited.
C2_ParseFailure ==
    (pc = "scan_returned" /\ File.parse # "ok") =>
        /\ Len(ret) = 1
        /\ ret[1].severity = "Error"
        /\ ret[1].line = (IF File.elineno = None THEN 0 ELSE File.elineno)
        /\ ret[1].issue.arg = File.msg
        /\ visited = <<>>

C2_Witness ==
    /\ pc = "scan_returned" /\ File.parse = "SyntaxError" /\ File.elineno = None
    /\ Len(ret) = 1 /\ ret[1].line = 0

\* C3: every returned Finding with line > 0 has line <= the number of
\* lines of the scanned text, the Error Finding of a parse failure included.
C3_LineValidity ==
    pc = "scan_returned" =>
        \A i \in 1..Len(ret) : ret[i].line > 0 => ret[i].line <= File.nlines

\* the name contains one of the four words, whatever its letters' case
NameLooksSecret(id) ==
    \E w \in {id_key, id_password, id_secret, id_token} :
        \E at \in 0..(Len(id) - Len(w)) :
            \A j \in 1..Len(w) : lower_char(id[at + j]) = w[j]
IsStringLiteral(node) == node.kind = "Constant" /\ node.val = "str"
IsSecretTarget(target) == target.kind = "Name" /\ NameLooksSecret(target.id)

\* C4 as claimed: an assignment emits exactly one High Finding naming the
\* identifier when it has a single target, a simple identifier with a
\* secret-looking name, and a string literal value; any other assignment,
\* one with several targets included, emits nothing.
C4_SingleTarget ==
    \A i \in VisitsOf("Assign") :
        LET node == visited[i].node
            emitted == visited[i].emitted
            targets == node.fields[1]
        IN  IF Len(targets) = 1 /\ IsSecretTarget(targets[1])
               /\ IsStringLiteral(node.fields[2][1])
            THEN /\ Len(emitted) = 1
                 /\ emitted[1].severity = "High"
                 /\ emitted[1].issue.arg = targets[1].id
            ELSE emitted = <<>>

\* C4 amended: an assignment of a string literal emits one High Finding
\* for each of its targets that is a simple identifier with a
\* secret-looking name, in target order, each naming its identifier as
\* written and carrying the assignment's line; any other target, and any
\* assignment of something else than a string literal, emits nothing.
C4_PerTarget ==
    \A i \in VisitsOf("Assign") :
        LET node == visited[i].node
            emitted == visited[i].emitted
            hits == SelectSeq(node.fields[1], IsSecretTarget)
        IN  IF IsStringLiteral(node.fields[2][1])
            THEN /\ Len(emitted) = Len(hits)
                 /\ \A k \in 1..Len(hits) :
                        /\ emitted[k].severity = "High"
                        /\ emitted[k].issue.arg = hits[k].id
                        /\ emitted[k].line = node.lineno
            ELSE emitted = <<>>

C4_Witness ==
    \E i \in VisitsOf("Assign") :
        /\ Len(visited[i].node.fields[1]) = 2
        /\ Len(visited[i].emitted) = 2
        /\ visited[i].emitted[1].issue.arg = id_PASSWORD
        /\ visited[i].emitted[2].issue.arg = id_a_secret_b

IsBareName(func) == func.kind = "Name"
IsModuleMethod(func, module, methods) ==
    /\ func.kind = "Attribute"
    /\ func.fields[1][1].kind = "Name" /\ func.fields[1][1].id = module
    /\ func.id \in methods
\* what the claim's table says of a callee: the severities and names reported
Reported(func) ==
    (IF IsBareName(func) /\ func.id \in {id_eval, id_exec}
        THEN {<<"High", func.id>>} ELSE {})
    \cup (IF IsBareName(func) /\ func.id = id_input THEN {<<"Medium", <<>>>>} ELSE {})
    \cup (IF IsModuleMethod(func, id_os, {id_system, id_popen})
            THEN {<<"High", id_os \o <<".">> \o func.id>>} ELSE {})
    \cup (IF IsModuleMethod(func, id_subprocess, {id_run, id_call, id_Popen})
            THEN {<<"High", id_subprocess \o <<".">> \o func.id>>} ELSE {})

\* C5: a call emits at most one Finding, decided by the callee's shape
\* alone: High naming eval or exec, Medium for input, High naming
\* os.system / os.popen, High naming subprocess.run / call / Popen, and
\* nothing for any other callee.
C5_DangerousCall ==
    \A i \in VisitsOf("Call") :
        LET emitted == visited[i].emitted
        IN  /\ Len(emitted) <= 1
            /\ {<<emitted[k].severity, emitted[k].issue.arg>> : k \in 1..Len(emitted)}
                   = Reported(visited[i].node.fields[1][1])
            /\ \A k \in 1..Len(emitted) : emitted[k].line = visited[i].node.lineno

C5_Witness ==
    \E i \in VisitsOf("Call") :
        /\ visited[i].node.fields[1][1].id = id_Popen
        /\ Len(visited[i].emitted) = 1
        /\ visited[i].emitted[1].issue.arg = id_subprocess \o <<".">> \o id_Popen

IsNoOp(stmt) ==
    \/ stmt.kind = "Pass"
    \/ stmt.kind = "Expr" /\ stmt.fields[1][1].kind = "Constant"
                          /\ stmt.fields[1][1].val = "Ellipsis"

C7_DocumentOrder ==
    pc = "scan_returned" =>
        \A i, j \in 1..Len(ret) : ret[i].line < ret[j].line => i < j

FromStatement(finding) ==
    finding.issue.text \in {"Possible Hardcoded Secret",
                            "Broad Exception Handler (empty except)"}

\* C7 amended: Findings come in traversal order, parent before children
\* and children in field order.  A Finding triggered by a statement (a
\* secret assignment, an empty handler) precedes every Finding of the scan
\* triggered on a later line; a Finding triggered by a call expression need
\* not.
C7_StatementOrder ==
    pc = "scan_returned" =>
        \A i, j \in 1..Len(ret) :
            (FromStatement(ret[i]) /\ ret[i].line < ret[j].line) => i < j

C7_Witness ==
    /\ pc = "scan_returned"
    /\ \E i, j \in 1..Len(ret) :
        /\ i < j
        /\ ret[i].line = 2 /\ ret[i].issue.text = "Possible Hardcoded Secret"
        /\ ret[j].line = 5 /\ ret[j].issue.text = "Use of Dangerous Function"

RECURSIVE Flatten(_)
Flatten(lists) == IF lists = <<>> THEN <<>> ELSE Head(lists) \o Flatten(Tail(lists))

\* C8: when the walk ends, every readable .py file has been scanned, once
\* and in walk order, whatever happened to the files before it, and the
\* response holds the Findings of every scan that returned, in that order.
C8_BatchNonFatal ==
    (pc = "done" /\ ~response.error) =>
        LET scannable == {i \in 1..Len(files) : files[i].py /\ files[i].read = "ok"}
        IN  /\ {calls[k].file : k \in 1..Len(calls)} = scannable
            /\ \A k, l \in 1..Len(calls) : k < l => calls[k].file < calls[l].file
            /\ response.issues = Flatten([k \in 1..Len(calls) |-> calls[k].findings])

C8_Witness ==
    /\ pc = "done" /\ ~response.error
    /\ Len(files) = 3
    /\ files[1].read = "UnicodeDecodeError"
    /\ Len(calls) = 2 /\ calls[1].raised
    /\ Len(response.issues) = 2 /\ response.issues[1].filename = 3

RECURSIVE Matches(_)
RECURSIVE MatchesIn(_)
MatchesIn(nodes) == IF nodes = <<>> THEN 0 ELSE Matches(Head(nodes)) + MatchesIn(Tail(nodes))
\* the detector conditions that hold in the tree under the node
Matches(node) ==
    (CASE node.kind = "Assign" -> Len(assign_issues(<<>>, 0, <<>>, node))
       [] node.kind = "Call" -> Len(call_issues(<<>>, 0, <<>>, node))
       [] node.kind = "ExceptHandler" -> Len(handler_issues(<<>>, 0, <<>>, node))
       [] OTHER -> 0)
    + MatchesIn(Children(node.fields))

RECURSIVE Size(_)
RECURSIVE SizeOf(_)
SizeOf(nodes) == IF nodes = <<>> THEN 0 ELSE Size(Head(nodes)) + SizeOf(Tail(nodes))
Size(node) == 1 + SizeOf(Children(node.fields))

\* C9: for every tree the scan ends having visited every node once and
\* returns as many Findings as detector conditions hold in the tree,
\* however deep the tree is.
C9_EveryNodeOnce ==
    (Scanning /\ File.parse = "ok") =>
        /\ pc = "scan_returned"
        /\ Len(visited) = Size(File.tree)
        /\ Len(ret) = Matches(File.tree)

\* C10: the code field is line n, trimmed, when 1 <= n <= number of lines,
\* and the placeholder for every other n.
C10_Snippet ==
    pc = "added" =>
        LET n == visited[1].node.lineno
        IN  issues[1].code = IF 1 <= n /\ n <= Len(code_lines)
                             THEN strip(code_lines[n])
                             ELSE CodeNotAvailable

====
